---- MODULE Spec2Model ----
(***************************************************************************)
(* Model of the jazz tweetfetcher (src/unnamed/part_001, the load-balanced *)
(* version of tweetfetcher.js) and of the datastore module it writes to    *)
(* (src/unnamed/part_002).                                                 *)
(*                                                                         *)
(* Every handler of the single JavaScript execution context is one action: *)
(* a handler runs to completion, and the suspension points are the calls   *)
(* to the external collaborators (cloud inventory, datastore, twitter).    *)
(***************************************************************************)
EXTENDS Integers, Sequences, FiniteSets, Bags, TLC

\* ------------------------------------------------------------------ bounds

\* The cursor grows without limit while the pool is empty ((r+1) % 0 is NaN);
\* assigns made with an empty pool stop at this value.
MaxCursor == 3

\* Reclaim passes (getLostTweets queries) that may be in flight at once.
MaxReclaims == 1

\* Inventory queries (updateAvailableVMs) that may be in flight at once.
MaxRefreshes == 1

\* Term queries (getAllTerms) that may be in flight at once.
MaxPolls == 2

\* Stat writes (storeStat) that may be in flight at once.
MaxStatWrites == 1

\* The time, in milliseconds after the module was loaded, up to which the
\* stats reporter is followed.
MaxClock == 10000

\* The inventory queries in flight at a time when refreshes overlap
MaxOverlap == 2

\* The calls of removeTerm for one term that are between their two steps
MaxRemovals == 2

\* bucketSize of src/tweetfetcher.js (1000 there), the last bucket of the
\* model and the inserts into buckets in flight at a time
bucketSize == 2

MaxBucket == 2

MaxInserts == 2

\* ------------------------------------------------------------------ values

Workers == {"w1", "w2", "w3"}

\* selectNextVM's sentinel, part_001 line 73
DEFAULT == "default"

\* JavaScript's undefined: what vms[i] yields for i >= vms.length
UNDEFINED == "undefined"

\* A tweet id that is not in the datastore
NOTSTORED == "notstored"

\* An absent property of an instance record (hasOwnProperty is false)
ABSENT == "absent"

\* The tweet ids (id_str) the feed delivers
Events == {"e1", "e2"}

\* Length of the window of assign results kept since the pool last changed:
\* the size of the largest pool.
MaxHist == Cardinality(Workers)

Range(s) == {s[i] : i \in 1..Len(s)}

\* ------------------------------------------------------------------ terms
\* A term is a sequence of UTF-16 code units.

SP == 32

\* String.prototype.toLowerCase on one code unit (ASCII letters)
LowerChar(c) == IF c >= 65 /\ c <= 90 THEN c + 32 ELSE c

toLowerCase(k) == [i \in 1..Len(k) |-> LowerChar(k[i])]

RECURSIVE TrimLeft(_)
TrimLeft(k) == IF k # <<>> /\ Head(k) = SP THEN TrimLeft(Tail(k)) ELSE k

RECURSIVE TrimRight(_)
TrimRight(k) ==
    IF k # <<>> /\ k[Len(k)] = SP THEN TrimRight(SubSeq(k, 1, Len(k) - 1)) ELSE k

\* String.prototype.trim
trim(k) == TrimRight(TrimLeft(k))

\* The comparison Array.prototype.sort uses by default: code unit order
RECURSIVE StrLess(_, _)
StrLess(a, b) ==
    IF a = <<>> THEN b # <<>>
    ELSE IF b = <<>> THEN FALSE
    ELSE IF Head(a) # Head(b) THEN Head(a) < Head(b)
    ELSE StrLess(Tail(a), Tail(b))

RECURSIVE InsertSorted(_, _)
InsertSorted(k, s) ==
    IF s = <<>> THEN <<k>>
    ELSE IF StrLess(k, Head(s)) THEN <<k>> \o s
    ELSE <<Head(s)>> \o InsertSorted(k, Tail(s))

\* keywords.sort()
RECURSIVE sort(_)
sort(s) == IF s = <<>> THEN <<>> ELSE InsertSorted(Head(s), sort(Tail(s)))

\* keywords.filter(k => k.length > 0)
RECURSIVE filterNonEmpty(_)
filterNonEmpty(s) ==
    IF s = <<>> THEN <<>>
    ELSE IF Len(Head(s)) > 0 THEN <<Head(s)>> \o filterNonEmpty(Tail(s))
    ELSE filterNonEmpty(Tail(s))

\* getTerms as it would be if it dropped the empty terms before it trimmed.
getTermsFilterFirst(r) ==
    LET keywords == IF r.err THEN <<>> ELSE r.words
        kept == filterNonEmpty(keywords)
        cleansed == [i \in 1..Len(kept) |-> trim(toLowerCase(kept[i]))]
    IN  sort(cleansed)

\* A sorted array without the repetitions of its elements
RECURSIVE dedupe(_)
dedupe(s) ==
    IF Len(s) < 2 THEN s
    ELSE IF s[1] = s[2] THEN dedupe(Tail(s))
    ELSE <<Head(s)>> \o dedupe(Tail(s))

\* getTerms as it would be if it removed the duplicates.
getTermsDeduped(r) ==
    LET keywords == IF r.err THEN <<>> ELSE r.words
        cleansed == [i \in 1..Len(keywords) |-> trim(toLowerCase(keywords[i]))]
    IN  dedupe(sort(filterNonEmpty(cleansed)))

\* getTerms: what it hands to its callback for the answer (err, words) of
\* db.getAllTerms.  On an error the keywords are the empty array.
getTerms(r) ==
    LET keywords == IF r.err THEN <<>> ELSE r.words
        cleansed == [i \in 1..Len(keywords) |-> trim(toLowerCase(keywords[i]))]
    IN  sort(filterNonEmpty(cleansed))

\* [" A ", "a", "", "B"]
ExampleTerms == << <<SP, 65, SP>>, <<97>>, <<>>, <<66>> >>

\* [" Clinton ", "clinton", "", "Obama"]
ClintonTerms ==
    << <<SP, 67, 108, 105, 110, 116, 111, 110, SP>>,
       <<99, 108, 105, 110, 116, 111, 110>>,
       <<>>,
       <<79, 98, 97, 109, 97>> >>

\* The contents the term source takes in the model: the example, ["b"],
\* ["b", "a"], ["b", " "], [" "] and [].
TermSources ==
    { ExampleTerms, << <<98>> >>, << <<98>>, <<97>> >>, << <<98>>, <<SP>> >>,
      << <<SP>> >>, <<>> }

\* ------------------------------------------------------------------ inventory

VM(n, s, a) == [name |-> n, instanceStatus |-> s, currentAction |-> a]

Running(n) == VM(n, "RUNNING", "NONE")
Creating(n) == VM(n, ABSENT, "CREATING")
Stopping(n) == VM(n, "STOPPING", "DELETING")

\* The managedInstances lists the inventory answers with in the model.
InstanceLists ==
    { <<>>,
      <<Running("w1")>>,
      <<Running("w1"), Running("w2")>>,
      <<Running("w1"), Creating("w2"), Running("w3")>>,
      <<Running("w1"), Stopping("w2")>> }

\* Answers of an inventory query: an error of the cloud module's
\* initialisation, an error of the listing, a result without the
\* managedInstances field, or a result with it.
InventoryResponses ==
    { [err |-> "init", hasManaged |-> FALSE, managedInstances |-> <<>>],
      [err |-> "list", hasManaged |-> FALSE, managedInstances |-> <<>>],
      [err |-> "none", hasManaged |-> FALSE, managedInstances |-> <<>>] }
    \cup { [err |-> "none", hasManaged |-> TRUE, managedInstances |-> l] :
             l \in InstanceLists }

\* The filter as it would be if it kept the running instances only.
RECURSIVE filterLiveRunningOnly(_)
filterLiveRunningOnly(l) ==
    IF l = <<>> THEN <<>>
    ELSE LET vm == Head(l)
             keep == vm.instanceStatus # ABSENT /\ vm.instanceStatus = "RUNNING"
         IN  IF keep THEN <<vm>> \o filterLiveRunningOnly(Tail(l))
             ELSE filterLiveRunningOnly(Tail(l))

\* res.managedInstances.filter(...)
RECURSIVE filterLive(_)
filterLive(l) ==
    IF l = <<>> THEN <<>>
    ELSE LET vm == Head(l)
             keep == (vm.instanceStatus # ABSENT /\ vm.instanceStatus = "RUNNING")
                     \/ (vm.currentAction # ABSENT /\ vm.currentAction = "CREATING")
         IN  IF keep THEN <<vm>> \o filterLive(Tail(l)) ELSE filterLive(Tail(l))

\* The pool as it would be if an error of the inventory emptied it.
poolAfterClearOnError(r, old) ==
    IF r.err = "none" /\ r.hasManaged
    THEN LET live == filterLive(r.managedInstances)
         IN  [i \in 1..Len(live) |-> live[i].name]
    ELSE <<>>

\* The pool after the answer r of the inventory, given the pool before it.
poolAfter(r, old) ==
    IF r.err # "none" THEN old
    ELSE IF r.hasManaged
         THEN LET live == filterLive(r.managedInstances)
              IN  [i \in 1..Len(live) |-> live[i].name]
         ELSE <<>>

\* ------------------------------------------------------------------ state

VARIABLES
    pc,                 \* "loaded" before tweetfetcher.init has run, then "running"
    vms,                \* the pool snapshot
    roundRobinIndex,    \* the round-robin cursor
    store,              \* datastore kind Tweet: tweet id -> data.vm, or NOTSTORED
    refreshes,          \* inventory queries in flight
    lostQueries,        \* reclaim passes in flight: a bag of the sets of tweets
                        \* each pass has still to hand to its callback
    termSource,         \* datastore kind Term: the raw terms
    polls,              \* the bag of the answers of getAllTerms in flight
    currentStreamTerms, \* the terms of the last subscription
    twitterStream,      \* the handle the module holds, or NoStream
    openStreams,        \* number of feed handles subscribed and not stopped
    hist,               \* results of the last assigns since the pool last changed
    stats,              \* the counting window: timestamp and tweetsCount
    clock,              \* new Date().getTime(), in milliseconds
    statWrites,         \* the bag of the stats of the storeStat calls in flight
    jazzStats,          \* datastore kind JazzStat: the stats stored
    counted,            \* the inserts that succeeded and the counts the reports used
    refreshOrder,       \* the inventory queries in flight, in the order of their calls
    tweets,             \* MongoDB collection tweets: _id -> the document, if it exists
    handed,             \* the callers findSingleNewTweet returned each document to
    fetched,            \* the raw terms of the last term query that succeeded
    termDocs,           \* MongoDB collection terms: term -> the document, if it exists
    termCalls,          \* the calls of removeTerm between their two steps, the
                        \* customers that want each term, whether a call has failed
    tweet_buckets,      \* MongoDB collection tweet_buckets: bucket -> its count
    currentBucket,      \* tweetfetcher.js: the bucket the next tweet goes to
    currentCountInBucket,
    bucketInserts,      \* the answers of insertTweetIntoBucket not yet handled
    last                \* what the last handler did

vars == <<pc, vms, roundRobinIndex, store, refreshes, lostQueries, termSource,
          polls, currentStreamTerms, twitterStream, openStreams, hist, stats,
          clock, statWrites, jazzStats, counted, refreshOrder, tweets, handed,
          fetched, termDocs, termCalls, tweet_buckets, currentBucket,
          currentCountInBucket, bucketInserts, last>>

\* The state of the stats reporter
statVars == <<stats, clock, statWrites, jazzStats>>

\* The state of the MongoDB store
mongoVars == <<tweets, handed>>

termVars == <<termDocs, termCalls>>

\* The buckets of the MongoDB store and the state of src/tweetfetcher.js
bucketVars == <<tweet_buckets, currentBucket, currentCountInBucket, bucketInserts>>

\* The terms and the customer ids of the model
TermNames == {"x", "y"}

Cids == {"a", "b"}

\* No document for this term in the collection
NoTerm == [exists |-> FALSE, ref_cids |-> {}]

\* No call of insertTerm or removeTerm made yet
NoTermCalls ==
    [pending |-> [t \in TermNames |-> 0], wanted |-> [t \in TermNames |-> {}],
     failed |-> FALSE]

\* The ids of the buckets
Buckets == 0..MaxBucket

\* The documents of the collection tweets (_id) and the callers of the store
Docs == {"t1", "t2"}

Callers == {"c1", "c2"}

\* No document with this _id in the collection
NoTweet == [exists |-> FALSE, analyzed |-> FALSE, inProgress |-> FALSE]

\* No inventory query in flight and no answer applied.  inflight holds, for
\* each query in flight in the order of the calls, whether the answer of a
\* query called after it has been applied.
NoRefresh == [inflight |-> <<>>, applied |-> FALSE]

\* No tweet inserted and no report made
NoneCounted == [inserts |-> 0, reports |-> 0]

\* open: the handle is held and not stopped; track: the terms it was opened
\* with; failed: the stream has emitted 'error'
NoStream == [open |-> FALSE, track |-> <<>>, failed |-> FALSE]

\* No answer of the inventory
NoResponse == [err |-> "unasked", hasManaged |-> FALSE, managedInstances |-> <<>>]

\* op: the handler; sel: the worker an assign selected; from: the worker the
\* tweet was assigned to before; log: the calls made on the feed; peak: the
\* most handles that were open at once during the handler; res: the answer
\* of the inventory the handler was called with (SpecPool).
NoOp == [op |-> "none", from |-> NOTSTORED, sel |-> NOTSTORED, log |-> <<>>, peak |-> 0,
         res |-> NoResponse]

Op(name) == [NoOp EXCEPT !.op = name]

Init ==
    /\ pc = "loaded"
    /\ vms = <<>>
    /\ roundRobinIndex = 0
    /\ store = [e \in Events |-> NOTSTORED]
    /\ refreshes = 0
    /\ lostQueries = EmptyBag
    /\ termSource = ExampleTerms
    /\ polls = EmptyBag
    /\ currentStreamTerms = <<>>
    /\ twitterStream = NoStream
    /\ openStreams = 0
    /\ hist = <<>>
    /\ stats = [timestamp |-> 0, tweetsCount |-> 0]
    /\ clock = 0
    /\ statWrites = EmptyBag
    /\ jazzStats = {}
    /\ counted = NoneCounted
    /\ refreshOrder = NoRefresh
    /\ tweets = [t \in Docs |-> NoTweet]
    /\ handed = [t \in Docs |-> <<>>]
    /\ fetched = <<>>
    /\ termDocs = [t \in TermNames |-> NoTerm]
    /\ termCalls = NoTermCalls
    /\ tweet_buckets = [b \in Buckets |-> 0]
    /\ currentBucket = 0
    /\ currentCountInBucket = 0
    /\ bucketInserts = EmptyBag
    /\ last = NoOp


\* ------------------------------------------------------------------ dispatcher

\* selectNextVM as it would be without the sentinel for the empty pool.
selectNextVMNoSentinel(pool, index) ==
    [ selectedVM |-> IF index < Len(pool) THEN pool[index + 1] ELSE UNDEFINED,
      roundRobinIndex |->
          IF Len(pool) # 0 /\ (index + 1) % Len(pool) = 0 THEN 0 ELSE index + 1 ]

\* selectNextVM: the worker it returns and the cursor it leaves.  With an
\* empty pool (r + 1) % 0 is NaN, NaN == 0 is false, and the cursor becomes
\* r + 1; vms[r] is undefined when r is not an index of the pool.
selectNextVM(pool, index) ==
    [ selectedVM |->
          IF Len(pool) > 0
          THEN IF index < Len(pool) THEN pool[index + 1] ELSE UNDEFINED
          ELSE DEFAULT,
      roundRobinIndex |->
          IF Len(pool) # 0 /\ (index + 1) % Len(pool) = 0 THEN 0 ELSE index + 1 ]

\* The window of assign results since the pool last changed.
Remember(h, w) ==
    LET a == Append(h, w)
    IN  IF Len(a) > MaxHist THEN SubSeq(a, Len(a) - MaxHist + 1, Len(a)) ELSE a

\* An assign made with an empty pool only counts the cursor up.
CursorInBound == Len(vms) = 0 => roundRobinIndex < MaxCursor

\* db.insertTweet: datastore.save under the key ['Tweet', id_str]
insertTweet(st, e, vm) == [st EXCEPT ![e] = vm]

\* onNewTweet as it would be if a failed insert stopped the stream.
onNewTweetStopsOnError(e, ok) ==
    /\ pc = "running"
    /\ twitterStream.open
    /\ ~twitterStream.failed
    /\ store[e] = NOTSTORED
    /\ CursorInBound
    /\ LET s == selectNextVM(vms, roundRobinIndex)
       IN  /\ roundRobinIndex' = s.roundRobinIndex
           /\ store' = IF ok THEN insertTweet(store, e, s.selectedVM) ELSE store
           /\ stats' = IF ok THEN [stats EXCEPT !.tweetsCount = @ + 1] ELSE stats
           /\ counted' = IF ok THEN [counted EXCEPT !.inserts = @ + 1] ELSE counted
           /\ hist' = Remember(hist, s.selectedVM)
           /\ last' = [Op(IF ok THEN "insert" ELSE "insertFailed") EXCEPT
                          !.sel = s.selectedVM]
    /\ twitterStream' = IF ok THEN twitterStream ELSE NoStream
    /\ openStreams' = IF ok THEN openStreams ELSE openStreams - 1
    /\ UNCHANGED <<refreshOrder, mongoVars, termVars, bucketVars, fetched, clock, statWrites, jazzStats, pc,
                   vms, refreshes, lostQueries, termSource, polls, currentStreamTerms>>

\* onNewTweet as it would be if it counted the tweet before the insert.
onNewTweetCountsEvery(e, ok) ==
    /\ pc = "running"
    /\ twitterStream.open
    /\ ~twitterStream.failed
    /\ store[e] = NOTSTORED
    /\ CursorInBound
    /\ LET s == selectNextVM(vms, roundRobinIndex)
       IN  /\ roundRobinIndex' = s.roundRobinIndex
           /\ store' = IF ok THEN insertTweet(store, e, s.selectedVM) ELSE store
           /\ stats' = [stats EXCEPT !.tweetsCount = @ + 1]
           /\ counted' = IF ok THEN [counted EXCEPT !.inserts = @ + 1] ELSE counted
           /\ hist' = Remember(hist, s.selectedVM)
           /\ last' = [Op(IF ok THEN "insert" ELSE "insertFailed") EXCEPT
                          !.sel = s.selectedVM]
    /\ UNCHANGED <<refreshOrder, mongoVars, termVars, bucketVars, fetched, clock, statWrites, jazzStats, pc,
                   vms, refreshes, lostQueries, termSource, polls, currentStreamTerms,
                   twitterStream, openStreams>>

\* onNewTweet: the 'tweet' event of the open stream, for a tweet id e, with
\* the callback of its insert; ok is the outcome of the insert.
onNewTweet(e, ok) ==
    /\ pc = "running"
    /\ twitterStream.open
    /\ ~twitterStream.failed
    /\ store[e] = NOTSTORED
    /\ CursorInBound
    /\ LET s == selectNextVM(vms, roundRobinIndex)
       IN  /\ roundRobinIndex' = s.roundRobinIndex
           /\ store' = IF ok THEN insertTweet(store, e, s.selectedVM) ELSE store
           /\ stats' = IF ok THEN [stats EXCEPT !.tweetsCount = @ + 1] ELSE stats
           /\ counted' = IF ok THEN [counted EXCEPT !.inserts = @ + 1] ELSE counted
           /\ hist' = Remember(hist, s.selectedVM)
           /\ last' = [Op(IF ok THEN "insert" ELSE "insertFailed") EXCEPT
                          !.sel = s.selectedVM]
    /\ UNCHANGED <<refreshOrder, mongoVars, termVars, bucketVars, fetched, clock, statWrites, jazzStats, pc,
                   vms, refreshes, lostQueries, termSource, polls, currentStreamTerms,
                   twitterStream, openStreams>>

\* ------------------------------------------------------------------ pool tracker

\* updateAvailableVMs up to its inventory query (timer, or the eager call of
\* init, which is part of the init action)
updateAvailableVMs ==
    /\ pc = "running"
    /\ refreshes < MaxRefreshes
    /\ refreshes' = refreshes + 1
    /\ last' = Op("refreshCall")
    /\ UNCHANGED <<statVars, counted, refreshOrder, mongoVars, termVars, bucketVars, fetched, pc, vms,
                   roundRobinIndex, store, lostQueries, termSource, polls,
                   currentStreamTerms, twitterStream, openStreams, hist>>

\* The callbacks as they would be if a refresh that succeeds also set the
\* cursor to 0.
listVMsAnswerResetsCursor(r, seen, order) ==
    /\ refreshes > 0
    /\ refreshes' = refreshes - 1
    /\ vms' = poolAfter(r, vms)
    /\ roundRobinIndex' = IF r.err = "none" THEN 0 ELSE roundRobinIndex
    /\ hist' = IF vms' = vms THEN hist ELSE <<>>
    /\ refreshOrder' = order
    /\ last' = [Op(IF r.err = "none" THEN "refreshed" ELSE "refreshFailed") EXCEPT
                   !.res = seen]
    /\ UNCHANGED <<statVars, counted, mongoVars, termVars, bucketVars, fetched, pc, store, lostQueries,
                   termSource, polls, currentStreamTerms, twitterStream, openStreams>>

\* The callbacks of updateAvailableVMs for the answer r of the inventory;
\* seen is what is remembered of the answer and order what is remembered of
\* the queries in flight.
listVMsAnswer(r, seen, order) ==
    /\ refreshes > 0
    /\ refreshes' = refreshes - 1
    /\ vms' = poolAfter(r, vms)
    /\ hist' = IF vms' = vms THEN hist ELSE <<>>
    /\ refreshOrder' = order
    /\ last' = [Op(IF r.err = "none" THEN "refreshed" ELSE "refreshFailed") EXCEPT
                   !.res = seen]
    /\ UNCHANGED <<statVars, counted, mongoVars, termVars, bucketVars, fetched, pc, roundRobinIndex, store,
                   lostQueries, termSource, polls, currentStreamTerms, twitterStream,
                   openStreams>>

listVMsCallback(r) == listVMsAnswer(r, NoResponse, refreshOrder)

\* The same callbacks, with the answer remembered.
listVMsCallbackSeen(r) == listVMsAnswer(r, r, refreshOrder)

\* The same calls and callbacks with the queries in flight kept in the order
\* of their calls, so that calls overlap and the answers arrive in any
\* order.

\* A query is put in flight.
Issued(order) == [order EXCEPT !.inflight = Append(@, FALSE)]

\* The answer r of the query at position i of those in flight is handled:
\* an answer that succeeds is applied, and the queries called before this
\* one have then been overtaken.
Answer(order, i, r) ==
    LET f == order.inflight
        rest == [j \in 1..(Len(f) - 1) |->
                    IF j < i THEN (f[j] \/ r.err = "none") ELSE f[j + 1]]
    IN  [inflight |-> rest, applied |-> order.applied \/ r.err = "none"]

\* The answer r, and whether its query had been overtaken
Late(r, late) ==
    [err |-> r.err, hasManaged |-> r.hasManaged,
     managedInstances |-> r.managedInstances, late |-> late]

updateAvailableVMsTracked ==
    /\ pc = "running"
    /\ Len(refreshOrder.inflight) < MaxOverlap
    /\ refreshes' = refreshes + 1
    /\ refreshOrder' = Issued(refreshOrder)
    /\ last' = Op("refreshCall")
    /\ UNCHANGED <<statVars, counted, mongoVars, termVars, bucketVars, fetched, pc, vms, roundRobinIndex, store,
                   lostQueries, termSource, polls, currentStreamTerms, twitterStream,
                   openStreams, hist>>

listVMsTracked(i, r) ==
    /\ i \in 1..Len(refreshOrder.inflight)
    /\ listVMsAnswer(r, Late(r, refreshOrder.inflight[i]), Answer(refreshOrder, i, r))

\* ------------------------------------------------------------------ reclaimer

InPool(w, pool) == w \in Range(pool)

\* db.getLostTweets(pool, cb): the stored tweets whose vm is not in pool
getLostTweets(st, pool) ==
    {e \in Events : st[e] # NOTSTORED /\ ~InPool(st[e], pool)}

\* db.updateTweet(tweet, cb): saves the tweet with its new data.vm
updateTweet(st, e, vm) == [st EXCEPT ![e] = vm]

\* reassignLostTweets as it would be if it counted the sentinel as a live
\* worker: tweets assigned to 'default' are not asked for.
reassignLostTweetsKeepDefault ==
    /\ pc = "running"
    /\ IF Len(vms) = 0
       THEN /\ last' = Op("reclaimSkipped")
            /\ UNCHANGED lostQueries
       ELSE /\ BagCardinality(lostQueries) < MaxReclaims
            /\ LET lost == getLostTweets(store, Append(vms, DEFAULT))
               IN  lostQueries' =
                       IF lost = {} THEN lostQueries
                       ELSE lostQueries (+) SetToBag({lost})
            /\ last' = Op("reclaimQuery")
    /\ UNCHANGED <<statVars, counted, refreshOrder, mongoVars, termVars, bucketVars, fetched, pc, vms,
                   roundRobinIndex, store, refreshes, termSource, polls,
                   currentStreamTerms, twitterStream, openStreams, hist>>

\* reassignLostTweets as it would be if it asked for the lost tweets of the
\* pool without its first worker.
reassignLostTweetsWrongPool ==
    /\ pc = "running"
    /\ IF Len(vms) = 0
       THEN /\ last' = Op("reclaimSkipped")
            /\ UNCHANGED lostQueries
       ELSE /\ BagCardinality(lostQueries) < MaxReclaims
            /\ LET lost == getLostTweets(store, Tail(vms))
               IN  lostQueries' =
                       IF lost = {} THEN lostQueries
                       ELSE lostQueries (+) SetToBag({lost})
            /\ last' = Op("reclaimQuery")
    /\ UNCHANGED <<statVars, counted, refreshOrder, mongoVars, termVars, bucketVars, fetched, pc, vms,
                   roundRobinIndex, store, refreshes, termSource, polls,
                   currentStreamTerms, twitterStream, openStreams, hist>>

\* reassignLostTweets as it would be without its check of the empty pool.
reassignLostTweetsNoSkip ==
    /\ pc = "running"
    /\ BagCardinality(lostQueries) < MaxReclaims
    /\ LET lost == getLostTweets(store, vms)
       IN  lostQueries' =
               IF lost = {} THEN lostQueries
               ELSE lostQueries (+) SetToBag({lost})
    /\ last' = Op(IF Len(vms) = 0 THEN "reclaimSkipped" ELSE "reclaimQuery")
    /\ UNCHANGED <<statVars, counted, refreshOrder, mongoVars, termVars, bucketVars, fetched, pc, vms,
                   roundRobinIndex, store, refreshes, termSource, polls,
                   currentStreamTerms, twitterStream, openStreams, hist>>

\* reassignLostTweets up to its query.  The array passed to getLostTweets is
\* the one vms names at that moment; a refresh assigns a new array to vms.
reassignLostTweets ==
    /\ pc = "running"
    /\ IF Len(vms) = 0
       THEN /\ last' = Op("reclaimSkipped")
            /\ UNCHANGED lostQueries
       ELSE /\ BagCardinality(lostQueries) < MaxReclaims
            /\ LET lost == getLostTweets(store, vms)
               IN  lostQueries' =
                       IF lost = {} THEN lostQueries
                       ELSE lostQueries (+) SetToBag({lost})
            /\ last' = Op("reclaimQuery")
    /\ UNCHANGED <<statVars, counted, refreshOrder, mongoVars, termVars, bucketVars, fetched, pc, vms,
                   roundRobinIndex, store, refreshes, termSource, polls,
                   currentStreamTerms, twitterStream, openStreams, hist>>

\* The per-tweet callback of reassignLostTweets for the tweet e of a pass
\* that has the tweets q left; ok is the outcome of updateTweet.
lostTweetCallback(q, e, ok) ==
    /\ BagIn(q, lostQueries)
    /\ e \in q
    /\ CursorInBound
    /\ LET s == selectNextVM(vms, roundRobinIndex)
           rest == q \ {e}
       IN  /\ roundRobinIndex' = s.roundRobinIndex
           /\ store' = IF ok THEN updateTweet(store, e, s.selectedVM) ELSE store
           /\ hist' = Remember(hist, s.selectedVM)
           /\ lostQueries' =
                  (lostQueries (-) SetToBag({q})) (+)
                  (IF rest = {} THEN EmptyBag ELSE SetToBag({rest}))
           /\ last' = [Op(IF ok THEN "reassign" ELSE "reassignFailed") EXCEPT
                          !.from = store[e], !.sel = s.selectedVM]
    /\ UNCHANGED <<statVars, counted, refreshOrder, mongoVars, termVars, bucketVars, fetched, pc, vms,
                   refreshes, termSource, polls, currentStreamTerms, twitterStream,
                   openStreams>>

\* ------------------------------------------------------------------ terms

\* db.getAllTerms: its answers for the term source as it is now
getAllTerms(src) == { [err |-> FALSE, words |-> src], [err |-> TRUE, words |-> <<>>] }

\* The answer of a term query that succeeds
termsFound(src) == { r \in getAllTerms(src) : ~r.err }

\* The comparison as it would be if it compared the two arrays themselves
\* (terms === currentStreamTerms): they are never the same array.
termsEqualByReference(terms, current) == FALSE

\* The comparison as it would be without the test of the lengths.
termsEqualElementwiseOnly(terms, current) ==
    \A i \in 1..Len(terms) : i <= Len(current) => terms[i] = current[i]

\* The comparison of updateTerms: same length and the same elements
termsEqual(terms, current) ==
    /\ Len(terms) = Len(current)
    /\ \A i \in 1..Len(terms) : i <= Len(current) /\ terms[i] = current[i]

\* subscribeToTweets: the stream twitter.stream returns
subscribeToTweets(terms) == [open |-> TRUE, track |-> terms, failed |-> FALSE]

\* The rotation as it would be if it subscribed without stopping the old
\* stream.
rotateNoStop(stream, nOpen, terms) ==
    [ twitterStream |-> subscribeToTweets(terms),
      openStreams |-> nOpen + 1,
      log |-> <<"subscribe">>,
      peak |-> nOpen + 1 ]

\* The rotation as it would be if it stopped the old stream and did not
\* subscribe again.
rotateNoSubscribe(stream, nOpen, terms) ==
    LET stopped == stream.open
        afterStop == IF stopped THEN nOpen - 1 ELSE nOpen
    IN  [ twitterStream |-> NoStream,
          openStreams |-> afterStop,
          log |-> IF stopped THEN <<"stop">> ELSE <<>>,
          peak |-> nOpen ]

\* The rotation of updateTerms: the calls it makes on the feed, the handles
\* open after each of them, and what it leaves.
rotate(stream, nOpen, terms) ==
    LET stopped == stream.open
        afterStop == IF stopped THEN nOpen - 1 ELSE nOpen
        afterSubscribe == afterStop + 1
    IN  [ twitterStream |-> subscribeToTweets(terms),
          openStreams |-> afterSubscribe,
          log |-> (IF stopped THEN <<"stop">> ELSE <<>>) \o <<"subscribe">>,
          peak |-> IF afterSubscribe > nOpen THEN afterSubscribe ELSE nOpen ]

\* updateTerms up to its term query, which r answers
updateTerms(r) ==
    /\ pc = "running"
    /\ BagCardinality(polls) < MaxPolls
    /\ r \in getAllTerms(termSource)
    /\ polls' = polls (+) SetToBag({r})
    /\ last' = Op("pollCall")
    /\ UNCHANGED <<statVars, counted, refreshOrder, mongoVars, termVars, bucketVars, fetched, pc, vms,
                   roundRobinIndex, store, refreshes, lostQueries, termSource,
                   currentStreamTerms, twitterStream, openStreams, hist>>

\* The callback as it would be if the rotation did not set
\* currentStreamTerms.
updateTermsCallbackKeepsTerms(r) ==
    /\ BagIn(r, polls)
    /\ polls' = polls (-) SetToBag({r})
    /\ LET terms == getTerms(r)
       IN  IF ~termsEqual(terms, currentStreamTerms)
           THEN LET rot == rotate(twitterStream, openStreams, terms)
                IN  /\ twitterStream' = rot.twitterStream
                    /\ openStreams' = rot.openStreams
                    /\ currentStreamTerms' = currentStreamTerms
                    /\ last' = [Op("rotated") EXCEPT !.log = rot.log, !.peak = rot.peak]
           ELSE /\ UNCHANGED <<twitterStream, openStreams, currentStreamTerms>>
                /\ last' = [Op("noNewTerms") EXCEPT !.peak = openStreams]
    /\ fetched' = IF r.err THEN fetched ELSE r.words
    /\ UNCHANGED <<statVars, counted, refreshOrder, mongoVars, termVars, bucketVars, pc, vms, roundRobinIndex,
                   store, refreshes, lostQueries, termSource, hist>>

\* The callback of updateTerms for the answer r of the term query
updateTermsCallback(r) ==
    /\ BagIn(r, polls)
    /\ polls' = polls (-) SetToBag({r})
    /\ LET terms == getTerms(r)
       IN  IF ~termsEqual(terms, currentStreamTerms)
           THEN LET rot == rotate(twitterStream, openStreams, terms)
                IN  /\ twitterStream' = rot.twitterStream
                    /\ openStreams' = rot.openStreams
                    /\ currentStreamTerms' = terms
                    /\ last' = [Op("rotated") EXCEPT !.log = rot.log, !.peak = rot.peak]
           ELSE /\ UNCHANGED <<twitterStream, openStreams, currentStreamTerms>>
                /\ last' = [Op("noNewTerms") EXCEPT !.peak = openStreams]
    /\ fetched' = IF r.err THEN fetched ELSE r.words
    /\ UNCHANGED <<statVars, counted, refreshOrder, mongoVars, termVars, bucketVars, pc, vms, roundRobinIndex,
                   store, refreshes, lostQueries, termSource, hist>>

\* The term source changes (terms are added or removed by the customers).
termsChange(t) ==
    /\ t # termSource
    /\ termSource' = t
    /\ last' = Op("termsChange")
    /\ UNCHANGED <<statVars, counted, refreshOrder, mongoVars, termVars, bucketVars, fetched, pc, vms,
                   roundRobinIndex, store, refreshes, lostQueries, polls,
                   currentStreamTerms, twitterStream, openStreams, hist>>

\* The 'error' event of the stream the module holds: the handler logs it.
onStreamError ==
    /\ twitterStream.open
    /\ ~twitterStream.failed
    /\ twitterStream' = [twitterStream EXCEPT !.failed = TRUE]
    /\ last' = Op("streamError")
    /\ UNCHANGED <<statVars, counted, refreshOrder, mongoVars, termVars, bucketVars, fetched, pc, vms,
                   roundRobinIndex, store, refreshes, lostQueries, termSource, polls,
                   currentStreamTerms, openStreams, hist>>

\* ------------------------------------------------------------------ stats
\* A rate is kept in tenths of a tweet per second.  The value handed to
\* storeStat is the string toFixed returns, or the number 0.0.

\* (newTweets / timeSpan * 1000).toFixed(1), for timeSpan >= 0: "NaN" for
\* 0 / 0, "Infinity" for n / 0, else the digits of the quotient rounded to
\* the nearest tenth, a half rounded up (the quotients of the model that
\* end in a half are exact in double precision).
toFixed(newTweets, timeSpan) ==
    IF timeSpan = 0
    THEN [type |-> "string", text |-> IF newTweets = 0 THEN "NaN" ELSE "Infinity",
          tenths |-> 0]
    ELSE [type |-> "string", text |-> "digits",
          tenths |-> (2 * newTweets * 10000 + timeSpan) \div (2 * timeSpan)]

\* isNaN(v): v converted to a number is NaN
isNaN(v) == v.text = "NaN"

\* tweetsPerSec as it would be without the isNaN branch.
tweetsPerSecUnguarded(newTweets, timeSpan) == toFixed(newTweets, timeSpan)

\* The tweetsPerSec of updateStats
tweetsPerSec(newTweets, timeSpan) ==
    LET v == toFixed(newTweets, timeSpan)
    IN  IF isNaN(v) THEN [type |-> "number", text |-> "digits", tenths |-> 0] ELSE v

\* db.storeStat: datastore.save of the stat under a generated key
storeStat(js, newStat) ==
    js \cup {[created |-> newStat.created, tweetsPerSec |-> newStat.tweetsPerSec]}

\* updateStats as it would be if it kept the counting window.
updateStatsNoReset ==
    /\ pc = "running"
    /\ BagCardinality(statWrites) < MaxStatWrites
    /\ LET now == clock
           timeSpan == now - stats.timestamp
           newTweets == stats.tweetsCount
           newStat == [created |-> now,
                       tweetsPerSec |-> tweetsPerSec(newTweets, timeSpan)]
       IN  /\ stats' = stats
           /\ statWrites' = statWrites (+) SetToBag({newStat})
           /\ counted' = [counted EXCEPT !.reports = @ + newTweets]
    /\ last' = Op("report")
    /\ UNCHANGED <<refreshOrder, mongoVars, termVars, bucketVars, fetched, clock, jazzStats, pc, vms,
                   roundRobinIndex, store, refreshes, lostQueries, termSource, polls,
                   currentStreamTerms, twitterStream, openStreams, hist>>

\* updateStats up to its call of db.storeStat (timer)
updateStats ==
    /\ pc = "running"
    /\ BagCardinality(statWrites) < MaxStatWrites
    /\ LET now == clock
           timeSpan == now - stats.timestamp
           newTweets == stats.tweetsCount
           newStat == [created |-> now,
                       tweetsPerSec |-> tweetsPerSec(newTweets, timeSpan)]
       IN  /\ stats' = [timestamp |-> now, tweetsCount |-> 0]
           /\ statWrites' = statWrites (+) SetToBag({newStat})
           /\ counted' = [counted EXCEPT !.reports = @ + newTweets]
    /\ last' = Op("report")
    /\ UNCHANGED <<refreshOrder, mongoVars, termVars, bucketVars, fetched, clock, jazzStats, pc, vms,
                   roundRobinIndex, store, refreshes, lostQueries, termSource, polls,
                   currentStreamTerms, twitterStream, openStreams, hist>>

\* The callback of db.storeStat for the stat newStat; ok is the outcome of
\* the save.
storeStatCallback(newStat, ok) ==
    /\ BagIn(newStat, statWrites)
    /\ statWrites' = statWrites (-) SetToBag({newStat})
    /\ jazzStats' = IF ok THEN storeStat(jazzStats, newStat) ELSE jazzStats
    /\ last' = Op(IF ok THEN "statStored" ELSE "statFailed")
    /\ UNCHANGED <<counted, refreshOrder, mongoVars, termVars, bucketVars, fetched, stats, clock, pc, vms,
                   roundRobinIndex, store, refreshes, lostQueries, termSource, polls,
                   currentStreamTerms, twitterStream, openStreams, hist>>

\* Time passes: d milliseconds.
tick(d) ==
    /\ clock + d <= MaxClock
    /\ clock' = clock + d
    /\ last' = Op("tick")
    /\ UNCHANGED <<counted, refreshOrder, mongoVars, termVars, bucketVars, fetched, stats, statWrites,
                   jazzStats, pc, vms, roundRobinIndex, store, refreshes, lostQueries,
                   termSource, polls, currentStreamTerms, twitterStream, openStreams,
                   hist>>

\* ------------------------------------------------------------------ startup

\* tweetfetcher.init: starts the timers, calls updateAvailableVMs and
\* updateTerms once; r answers the term query.
\* init as it would be without the eager call of updateAvailableVMs.
initNoEagerRefresh(r) ==
    /\ pc = "loaded"
    /\ pc' = "running"
    /\ r \in getAllTerms(termSource)
    /\ polls' = polls (+) SetToBag({r})
    /\ last' = Op("init")
    /\ UNCHANGED <<statVars, counted, refreshOrder, mongoVars, termVars, bucketVars, fetched, vms,
                   roundRobinIndex, store, lostQueries, termSource, currentStreamTerms,
                   twitterStream, openStreams, hist, refreshes>>

init(r) ==
    /\ pc = "loaded"
    /\ pc' = "running"
    /\ refreshes' = refreshes + 1
    /\ r \in getAllTerms(termSource)
    /\ polls' = polls (+) SetToBag({r})
    /\ last' = Op("init")
    /\ UNCHANGED <<statVars, counted, refreshOrder, mongoVars, termVars, bucketVars, fetched, vms,
                   roundRobinIndex, store, lostQueries, termSource, currentStreamTerms,
                   twitterStream, openStreams, hist>>

\* init, with the query of its eager call kept with those in flight.
initTracked(r) ==
    /\ pc = "loaded"
    /\ pc' = "running"
    /\ refreshes' = refreshes + 1
    /\ refreshOrder' = Issued(refreshOrder)
    /\ r \in getAllTerms(termSource)
    /\ polls' = polls (+) SetToBag({r})
    /\ last' = Op("init")
    /\ UNCHANGED <<statVars, counted, mongoVars, termVars, bucketVars, fetched, vms, roundRobinIndex, store,
                   lostQueries, termSource, currentStreamTerms, twitterStream,
                   openStreams, hist>>

\* ------------------------------------------------------------------ MongoDB store
\* The collection tweets of the MongoDB store.  The server applies each
\* operation on a document atomically, so concurrent calls are the steps of
\* the callers in some order.

\* A new document as insertTweet writes it
NewTweet == [exists |-> TRUE, analyzed |-> FALSE, inProgress |-> FALSE]

\* The filter as it would be if it asked for analyzed: false only.
isNewTweetAnalyzedOnly(doc) == doc.exists /\ ~doc.analyzed

\* The filter {inProgress: false, analyzed: false} of findSingleNewTweet
isNewTweet(doc) == doc.exists /\ ~doc.inProgress /\ ~doc.analyzed

\* insertTweet of the MongoDB store, for a tweet that gets the _id t
mongoInsertTweet(t, connected) ==
    /\ ~tweets[t].exists
    /\ tweets' = IF connected THEN [tweets EXCEPT ![t] = NewTweet] ELSE tweets
    /\ last' = Op(IF connected THEN "tweetInserted" ELSE "notConnected")
    /\ UNCHANGED <<termVars, bucketVars, statVars, counted, refreshOrder, handed, fetched, pc, vms,
                   roundRobinIndex, store, refreshes, lostQueries, termSource, polls,
                   currentStreamTerms, twitterStream, openStreams, hist>>

\* findSingleNewTweet called by c: findOneAndUpdate marks one document that
\* passes the filter and returns it, or returns null when there is none.
findSingleNewTweet(c, connected) ==
    /\ LET found == {t \in Docs : isNewTweet(tweets[t])}
       IN  IF ~connected
           THEN /\ last' = Op("notConnected")
                /\ UNCHANGED mongoVars
           ELSE IF found = {}
           THEN /\ last' = Op("foundNone")
                /\ UNCHANGED mongoVars
           ELSE \E t \in found :
                    /\ tweets' = [tweets EXCEPT ![t].inProgress = TRUE]
                    /\ handed' = [handed EXCEPT ![t] = Append(@, c)]
                    /\ last' = Op("found")
    /\ UNCHANGED <<termVars, bucketVars, statVars, counted, refreshOrder, fetched, pc, vms, roundRobinIndex,
                   store, refreshes, lostQueries, termSource, polls,
                   currentStreamTerms, twitterStream, openStreams, hist>>

\* updateSingleTweetWithAnalysis as it would be if it did not update the
\* inProgress flag.
updateSingleTweetWithAnalysisKeepsFlag(t) ==
    /\ tweets[t].exists
    /\ tweets' = [tweets EXCEPT ![t].analyzed = TRUE]
    /\ last' = Op("analyzed")
    /\ UNCHANGED <<termVars, bucketVars, statVars, counted, refreshOrder, handed, fetched,
                   pc, vms, roundRobinIndex, store, refreshes, lostQueries, termSource,
                   polls, currentStreamTerms, twitterStream, openStreams, hist>>

\* updateSingleTweetWithAnalysis for the document with the _id t
updateSingleTweetWithAnalysis(t) ==
    /\ tweets[t].exists
    /\ tweets' = [tweets EXCEPT ![t].analyzed = TRUE, ![t].inProgress = FALSE]
    /\ last' = Op("analyzed")
    /\ UNCHANGED <<termVars, bucketVars, statVars, counted, refreshOrder, handed, fetched, pc, vms,
                   roundRobinIndex, store, refreshes, lostQueries, termSource, polls,
                   currentStreamTerms, twitterStream, openStreams, hist>>

\* ------------------------------------------------------------------ MongoDB terms
\* The collection terms of the MongoDB store, with one document for a term.
\* The server applies updateOne and remove to a document atomically.

\* The filter as it would be without the test of ref_cids.
isUnreferencedAny(doc) == doc.exists

\* The filter {ref_cids: {$exists: true, $size: 0}} of the remove of
\* removeTerm
isUnreferenced(doc) == doc.exists /\ doc.ref_cids = {}

\* getAllTerms of the MongoDB store: the terms of the documents
mongoGetAllTerms(docs) == {t \in TermNames : docs[t].exists}

\* insertTerm: updateOne with $addToSet and upsert; ok is its outcome.
insertTerm(t, cid, ok) ==
    /\ IF ok
       THEN /\ termDocs' = [termDocs EXCEPT
                               ![t] = [exists |-> TRUE, ref_cids |-> @.ref_cids \cup {cid}]]
            /\ termCalls' = [termCalls EXCEPT !.wanted[t] = @ \cup {cid}]
            /\ last' = Op("termInserted")
       ELSE /\ UNCHANGED termVars
            /\ last' = Op("termInsertFailed")
    /\ UNCHANGED <<mongoVars, bucketVars, statVars, counted, refreshOrder, fetched, pc, vms,
                   roundRobinIndex, store, refreshes, lostQueries, termSource, polls,
                   currentStreamTerms, twitterStream, openStreams, hist>>

\* removeTerm up to the callback of its updateOne, which pulls the cid from
\* the document of the term if there is one; ok is its outcome, and on an
\* error the callback returns without the second step.
removeTerm(t, cid, ok) ==
    /\ termCalls.pending[t] < MaxRemovals
    /\ IF ok
       THEN /\ termDocs' = [termDocs EXCEPT ![t].ref_cids = @ \ {cid}]
            /\ termCalls' = [termCalls EXCEPT !.pending[t] = @ + 1,
                                              !.wanted[t] = @ \ {cid}]
            /\ last' = Op("termPulled")
       ELSE /\ UNCHANGED termDocs
            /\ termCalls' = [termCalls EXCEPT !.failed = TRUE]
            /\ last' = Op("termPullFailed")
    /\ UNCHANGED <<mongoVars, bucketVars, statVars, counted, refreshOrder, fetched, pc, vms,
                   roundRobinIndex, store, refreshes, lostQueries, termSource, polls,
                   currentStreamTerms, twitterStream, openStreams, hist>>

\* The second step of removeTerm: the remove of the document of the term if
\* its ref_cids is empty; ok is its outcome.
removeTermCallback(t, ok) ==
    /\ termCalls.pending[t] > 0
    /\ IF ok
       THEN /\ termDocs' = IF isUnreferenced(termDocs[t])
                           THEN [termDocs EXCEPT ![t] = NoTerm]
                           ELSE termDocs
            /\ termCalls' = [termCalls EXCEPT !.pending[t] = @ - 1]
            /\ last' = Op(IF termDocs'[t].exists THEN "termKept" ELSE "termRemoved")
       ELSE /\ UNCHANGED termDocs
            /\ termCalls' = [termCalls EXCEPT !.pending[t] = @ - 1, !.failed = TRUE]
            /\ last' = Op("termRemoveFailed")
    /\ UNCHANGED <<mongoVars, bucketVars, statVars, counted, refreshOrder, fetched, pc, vms,
                   roundRobinIndex, store, refreshes, lostQueries, termSource, polls,
                   currentStreamTerms, twitterStream, openStreams, hist>>

\* ------------------------------------------------------------------ buckets
\* The bucketed ingestion of src/tweetfetcher.js on the collection
\* tweet_buckets of the MongoDB store.

\* insertTweetIntoBucket: findOneAndUpdate with $inc of count, $push of the
\* tweet and upsert, on the document of bucket b
insertTweetIntoBucket(buckets, b) == [buckets EXCEPT ![b] = @ + 1]

\* onNewTweet of src/tweetfetcher.js: the 'tweet' event, up to the answer of
\* insertTweetIntoBucket for the bucket that currentBucket names at the
\* event; ok is the outcome of the insert, and the answer of one that
\* succeeds is the count of the updated document.
onNewTweetIntoBucket(ok) ==
    /\ currentBucket \in Buckets
    /\ BagCardinality(bucketInserts) < MaxInserts
    /\ LET after == insertTweetIntoBucket(tweet_buckets, currentBucket)
       IN  IF ok
           THEN /\ tweet_buckets' = after
                /\ bucketInserts' = bucketInserts (+)
                       SetToBag({[err |-> FALSE, count |-> after[currentBucket]]})
                /\ last' = Op("bucketInsert")
           ELSE /\ UNCHANGED tweet_buckets
                /\ bucketInserts' = bucketInserts (+) SetToBag({[err |-> TRUE, count |-> 0]})
                /\ last' = Op("bucketInsertFailed")
    /\ UNCHANGED <<mongoVars, termVars, currentBucket, currentCountInBucket, statVars,
                   counted, refreshOrder, fetched, pc, vms, roundRobinIndex, store,
                   refreshes, lostQueries, termSource, polls, currentStreamTerms,
                   twitterStream, openStreams, hist>>

\* The callback of insertTweetIntoBucket in onNewTweet for the answer a
insertTweetIntoBucketCallback(a) ==
    /\ BagIn(a, bucketInserts)
    /\ bucketInserts' = bucketInserts (-) SetToBag({a})
    /\ IF a.err
       THEN /\ UNCHANGED <<currentBucket, currentCountInBucket>>
            /\ last' = Op("bucketError")
       ELSE /\ currentCountInBucket' = a.count
            /\ currentBucket' = IF a.count >= bucketSize
                                THEN currentBucket + 1
                                ELSE currentBucket
            /\ last' = Op("bucketCounted")
    /\ UNCHANGED <<mongoVars, termVars, tweet_buckets, statVars, counted, refreshOrder,
                   fetched, pc, vms, roundRobinIndex, store, refreshes, lostQueries,
                   termSource, polls, currentStreamTerms, twitterStream, openStreams,
                   hist>>

\* ------------------------------------------------------------------ specification

\* The dispatcher, the pool tracker and the reclaimer, with the term watcher
\* up to its first subscription: the term source does not change and answers,
\* so that the polls of the timer find no new terms (SpecStable) and are left
\* out here.
Next ==
    \/ \E r \in termsFound(termSource) : init(r)
    \/ \E e \in Events, ok \in BOOLEAN : onNewTweet(e, ok)
    \/ updateAvailableVMs
    \/ \E r \in InventoryResponses : listVMsCallback(r)
    \/ reassignLostTweets
    \/ \E q \in BagToSet(lostQueries), e \in Events, ok \in BOOLEAN : lostTweetCallback(q, e, ok)
    \/ \E r \in BagToSet(polls) : updateTermsCallback(r)

Spec == Init /\ [][Next]_vars

\* The same program, with the answers of the inventory remembered.
NextPool ==
    \/ \E r \in termsFound(termSource) : init(r)
    \/ \E e \in Events, ok \in BOOLEAN : onNewTweet(e, ok)
    \/ updateAvailableVMs
    \/ \E r \in InventoryResponses : listVMsCallbackSeen(r)
    \/ reassignLostTweets
    \/ \E q \in BagToSet(lostQueries), e \in Events, ok \in BOOLEAN : lostTweetCallback(q, e, ok)
    \/ \E r \in BagToSet(polls) : updateTermsCallback(r)

SpecPool == Init /\ [][NextPool]_vars

\* The dispatcher and the pool tracker with overlapping refreshes.
NextOrder ==
    \/ \E r \in termsFound(termSource) : initTracked(r)
    \/ \E e \in Events, ok \in BOOLEAN : onNewTweet(e, ok)
    \/ updateAvailableVMsTracked
    \/ \E i \in 1..MaxOverlap, r \in InventoryResponses : listVMsTracked(i, r)
    \/ \E r \in BagToSet(polls) : updateTermsCallback(r)

SpecOrder == Init /\ [][NextOrder]_vars

\* The inventory answers of the cursor's specification: a listing that
\* fails, and the listings of no or two instances (pools of 0, 1 and 2
\* workers).
CursorResponses ==
    { r \in InventoryResponses :
        r.err = "list" \/ (r.hasManaged /\ Len(r.managedInstances) \in {0, 2}) }

\* The handlers of all the timers and callbacks together, for one tweet: the
\* dispatcher, the pool tracker, the reclaimer, the term watcher whose query
\* may fail, and the stats reporter.  A timer issues no second call while the
\* answer of its last one is outstanding.
NextCursor ==
    \/ \E r \in termsFound(termSource) : init(r)
    \/ \E ok \in BOOLEAN : onNewTweet("e1", ok)
    \/ refreshes = 0 /\ updateAvailableVMs
    \/ \E r \in CursorResponses : listVMsCallback(r)
    \/ (Len(vms) = 0 \/ lostQueries = EmptyBag) /\ reassignLostTweets
    \/ \E q \in BagToSet(lostQueries), ok \in BOOLEAN : lostTweetCallback(q, "e1", ok)
    \/ \E r \in getAllTerms(termSource) : polls = EmptyBag /\ updateTerms(r)
    \/ \E r \in BagToSet(polls) : updateTermsCallback(r)
    \/ statWrites = EmptyBag /\ updateStats
    \/ \E st \in BagToSet(statWrites), ok \in BOOLEAN : storeStatCallback(st, ok)

SpecCursor == Init /\ [][NextCursor]_vars

\* The MongoDB store and its callers
NextMongo ==
    \/ \E t \in Docs, connected \in BOOLEAN : mongoInsertTweet(t, connected)
    \/ \E c \in Callers, connected \in BOOLEAN : findSingleNewTweet(c, connected)
    \/ \E t \in Docs : updateSingleTweetWithAnalysis(t)

SpecMongo == Init /\ [][NextMongo]_vars

\* The terms of the MongoDB store and the customers that insert and remove
\* them
NextTermStore ==
    \/ \E t \in TermNames, cid \in Cids, ok \in BOOLEAN : insertTerm(t, cid, ok)
    \/ \E t \in TermNames, cid \in Cids, ok \in BOOLEAN : removeTerm(t, cid, ok)
    \/ \E t \in TermNames, ok \in BOOLEAN : removeTermCallback(t, ok)

SpecTermStore == Init /\ [][NextTermStore]_vars

\* The bucketed ingestion of src/tweetfetcher.js
NextBuckets ==
    \/ \E ok \in BOOLEAN : onNewTweetIntoBucket(ok)
    \/ \E a \in BagToSet(bucketInserts) : insertTweetIntoBucketCallback(a)

SpecBuckets == Init /\ [][NextBuckets]_vars

\* The term watcher with a term source that changes and may fail.
NextTerms ==
    \/ \E r \in getAllTerms(termSource) : init(r)
    \/ \E r \in getAllTerms(termSource) : updateTerms(r)
    \/ \E r \in BagToSet(polls) : updateTermsCallback(r)
    \/ \E t \in TermSources : termsChange(t)
    \/ onStreamError

InitTerms ==
    /\ pc = "loaded"
    /\ vms = <<>>
    /\ roundRobinIndex = 0
    /\ store = [e \in Events |-> NOTSTORED]
    /\ refreshes = 0
    /\ lostQueries = EmptyBag
    /\ termSource \in TermSources
    /\ polls = EmptyBag
    /\ currentStreamTerms = <<>>
    /\ twitterStream = NoStream
    /\ openStreams = 0
    /\ hist = <<>>
    /\ stats = [timestamp |-> 0, tweetsCount |-> 0]
    /\ clock = 0
    /\ statWrites = EmptyBag
    /\ jazzStats = {}
    /\ counted = NoneCounted
    /\ refreshOrder = NoRefresh
    /\ tweets = [t \in Docs |-> NoTweet]
    /\ handed = [t \in Docs |-> <<>>]
    /\ fetched = <<>>
    /\ termDocs = [t \in TermNames |-> NoTerm]
    /\ termCalls = NoTermCalls
    /\ tweet_buckets = [b \in Buckets |-> 0]
    /\ currentBucket = 0
    /\ currentCountInBucket = 0
    /\ bucketInserts = EmptyBag
    /\ last = NoOp

SpecTerms == InitTerms /\ [][NextTerms]_vars

\* The raw terms and the term sources of the stable term watcher: [], every
\* list of one or two different ones of "", " ", "a", "A", " b", "B" (the raw
\* terms are the names of the keys of kind Term), and the terms of the
\* scenario.
RawTerms == { <<>>, <<SP>>, <<97>>, <<65>>, <<SP, 98>>, <<66>> }

StableSources == {<<>>} \cup {<<k>> : k \in RawTerms}
                 \cup {<<p[1], p[2]>> : p \in {q \in RawTerms \X RawTerms : q[1] # q[2]}}
                 \cup {ClintonTerms}

InitStable ==
    /\ pc = "loaded"
    /\ vms = <<>>
    /\ roundRobinIndex = 0
    /\ store = [e \in Events |-> NOTSTORED]
    /\ refreshes = 0
    /\ lostQueries = EmptyBag
    /\ termSource \in StableSources
    /\ polls = EmptyBag
    /\ currentStreamTerms = <<>>
    /\ twitterStream = NoStream
    /\ openStreams = 0
    /\ hist = <<>>
    /\ stats = [timestamp |-> 0, tweetsCount |-> 0]
    /\ clock = 0
    /\ statWrites = EmptyBag
    /\ jazzStats = {}
    /\ counted = NoneCounted
    /\ refreshOrder = NoRefresh
    /\ tweets = [t \in Docs |-> NoTweet]
    /\ handed = [t \in Docs |-> <<>>]
    /\ fetched = <<>>
    /\ termDocs = [t \in TermNames |-> NoTerm]
    /\ termCalls = NoTermCalls
    /\ tweet_buckets = [b \in Buckets |-> 0]
    /\ currentBucket = 0
    /\ currentCountInBucket = 0
    /\ bucketInserts = EmptyBag
    /\ last = NoOp

\* The term watcher with a term source that does not change and answers.
NextStable ==
    \/ \E r \in termsFound(termSource) : init(r)
    \/ \E r \in termsFound(termSource) : updateTerms(r)
    \/ \E r \in BagToSet(polls) : updateTermsCallback(r)

SpecStable == InitStable /\ [][NextStable]_vars

\* The tweets counted in the window so far when the stats reporter is
\* taken up (tweets other than those of Events), and the steps of the clock.
Counts == {0, 25}

Ticks == {4000, 6000}

\* The running program, subscribed to the example terms, some time into a
\* counting window.
InitStats ==
    /\ pc = "running"
    /\ vms = <<"w1">>
    /\ roundRobinIndex = 0
    /\ store = [e \in Events |-> NOTSTORED]
    /\ refreshes = 0
    /\ lostQueries = EmptyBag
    /\ termSource = ExampleTerms
    /\ polls = EmptyBag
    /\ currentStreamTerms = getTerms([err |-> FALSE, words |-> ExampleTerms])
    /\ twitterStream = subscribeToTweets(currentStreamTerms)
    /\ openStreams = 1
    /\ hist = <<>>
    /\ stats \in [timestamp : {0}, tweetsCount : Counts]
    /\ clock = IF stats.tweetsCount = 0 THEN 0 ELSE 4000
    /\ statWrites = EmptyBag
    /\ jazzStats = {}
    /\ counted = [inserts |-> stats.tweetsCount, reports |-> 0]
    /\ refreshOrder = NoRefresh
    /\ tweets = [t \in Docs |-> NoTweet]
    /\ handed = [t \in Docs |-> <<>>]
    /\ fetched = <<>>
    /\ termDocs = [t \in TermNames |-> NoTerm]
    /\ termCalls = NoTermCalls
    /\ tweet_buckets = [b \in Buckets |-> 0]
    /\ currentBucket = 0
    /\ currentCountInBucket = 0
    /\ bucketInserts = EmptyBag
    /\ last = NoOp

\* The stats reporter and the dispatcher.
NextStats ==
    \/ \E e \in Events, ok \in BOOLEAN : onNewTweet(e, ok)
    \/ \E d \in Ticks : tick(d)
    \/ updateStats
    \/ \E st \in BagToSet(statWrites), ok \in BOOLEAN : storeStatCallback(st, ok)

SpecStats == InitStats /\ [][NextStats]_vars

\* The program whose timers keep firing, whose inventory keeps answering and
\* whose datastore writes keep succeeding.
Fairness ==
    /\ WF_vars(updateAvailableVMs)
    /\ WF_vars(\E r \in InventoryResponses : listVMsCallback(r))
    /\ WF_vars(reassignLostTweets)
    /\ \A e \in Events :
           SF_vars(\E q \in BagToSet(lostQueries) : lostTweetCallback(q, e, TRUE))

SpecLive == Init /\ [][Next]_vars /\ Fairness

\* ------------------------------------------------------------------ claims

\* The handlers that assign: onNewTweet and the callback of the reclaimer
AssignOps == {"insert", "insertFailed", "reassign", "reassignFailed"}

\* The handlers that write the assignment of a reclaimed tweet
ReassignOps == {"reassign", "reassignFailed"}

LastN(h, n) == SubSeq(h, Len(h) - n + 1, Len(h))

\* h visits every worker of pool once, in pool order, from some position on
IsRotation(h, pool) ==
    \E k \in 0..(Len(pool) - 1) :
        \A i \in 1..Len(pool) : h[i] = pool[((k + i - 1) % Len(pool)) + 1]

\* C1: round-robin fairness.  Whenever the pool has N >= 1 workers and N
\* assigns have been made since it last changed, the last N assigns returned
\* every worker of the pool exactly once, in pool order; from cursor 0 with
\* the pool [w1, w2, w3] they are w1, w2, w3 and the cursor is 0 again.
C1_RoundRobinFairness ==
    /\ (Len(vms) >= 1 /\ Len(hist) >= Len(vms))
           => IsRotation(LastN(hist, Len(vms)), vms)
    /\ (vms = <<"w1", "w2", "w3">> /\ Len(hist) = 3 /\ roundRobinIndex = 0)
           => hist = <<"w1", "w2", "w3">>

\* C2: an assign made with a non-empty pool returns pool[cursor mod poolSize],
\* a member of the pool snapshot, whatever refreshes came before it.
C2_SelectsPoolMember ==
    [][ (last'.op \in AssignOps /\ Len(vms) > 0)
            => /\ last'.sel = vms[(roundRobinIndex % Len(vms)) + 1]
               /\ InPool(last'.sel, vms) ]_vars

\* C3: an assign made with an empty pool returns the sentinel 'default', for
\* every tweet and every cursor value.
C3_EmptyPoolDefault ==
    (last.op \in AssignOps /\ Len(vms) = 0) => last.sel = DEFAULT

\* C3 witness: tweets were assigned with an empty pool at a cursor beyond 0,
\* the last one got 'default' and is stored with it.
C3_Witness ==
    /\ last.op = "insert"
    /\ Len(vms) = 0
    /\ roundRobinIndex >= 2
    /\ last.sel = DEFAULT
    /\ \E e \in Events : store[e] = DEFAULT

\* C4: every tweet in the datastore has one assigned worker that is defined:
\* a worker or the sentinel 'default'.
C4_AssignedWorkerDefined ==
    \A e \in Events : store[e] # NOTSTORED => store[e] \in Workers \cup {DEFAULT}

\* The non-empty pools the inventory answers lead to
LivePools == {poolAfter(r, <<>>) : r \in InventoryResponses} \ {<<>>}

\* Every tweet in the datastore is assigned to a worker of the pool
AllAssignedLive == \A e \in Events : store[e] # NOTSTORED => InPool(store[e], vms)

\* C5: eventual assignment.  If from some point on the pool is non-empty and
\* stays the same, then from some point on every tweet in the datastore is
\* assigned to a worker of the pool.
C5_EventuallyAssignedLive ==
    \A p \in LivePools : <>[](vms = p) => <>[]AllAssignedLive

\* C5 witness: a tweet first assigned to 'default' has been reassigned to a
\* worker of the pool, and every tweet is stored and assigned to a live worker.
C5_Witness ==
    /\ last.op = "reassign"
    /\ last.from = DEFAULT
    /\ InPool(last.sel, vms)
    /\ \A e \in Events : store[e] # NOTSTORED
    /\ AllAssignedLive

\* C6 as claimed: when the callback of the reclaimer reassigns a tweet, the
\* worker the tweet was assigned to is not in the pool snapshot of that
\* moment.
C6_NeverReassignsLive ==
    last.op \in ReassignOps => ~InPool(last.from, vms)

\* C6 amended: every tweet a reclaim pass hands to its callback was, when
\* reassignLostTweets issued the query, assigned to a worker that is not in
\* the pool snapshot of that moment.
C6_LostWhenQueried ==
    [][ last'.op = "reclaimQuery"
            => \A q \in BagToSet(lostQueries' (-) lostQueries) : \A e \in q :
                   store[e] # NOTSTORED /\ ~InPool(store[e], vms) ]_vars

\* C6 witness: a pass was issued for a tweet of a worker that left the pool,
\* while the pool holds other workers.
C6_Witness ==
    /\ last.op = "reclaimQuery"
    /\ lostQueries # EmptyBag
    /\ \E e \in Events : store[e] \in Workers /\ ~InPool(store[e], vms)
    /\ \E e \in Events : InPool(store[e], vms)

\* C7: reassignLostTweets called with an empty pool issues no query, changes
\* no assignment and leaves the cursor where it is.
C7_ReclaimNoOpOnEmptyPool ==
    [][ (last'.op \in {"reclaimSkipped", "reclaimQuery"} /\ Len(vms) = 0)
            => /\ last'.op = "reclaimSkipped"
               /\ UNCHANGED <<lostQueries, store, roundRobinIndex, vms, hist>> ]_vars

\* C7 witness: reassignLostTweets has just skipped with an empty pool while
\* both tweets are orphaned.
C7_Witness ==
    /\ last.op = "reclaimSkipped"
    /\ Len(vms) = 0
    /\ lostQueries = EmptyBag
    /\ \A e \in Events : store[e] \notin {NOTSTORED} \cup Workers

\* C8: with the pool shrunk from [w1, w2] to [w1] (the cursor is one that is
\* reachable under [w1, w2]: 0 or 1), the reclaim pass reassigns a tweet of
\* w2 to w1.
C8_ShrinkReassignsToW1 ==
    [][ (last'.op \in ReassignOps /\ vms = <<"w1">> /\ last'.from = "w2"
         /\ roundRobinIndex < 2)
            => last'.sel = "w1" ]_vars

\* C9: rotation is exclusive.  At most one feed handle is open in every
\* state and at every moment of a rotation, and a rotation that finds a
\* handle open stops it before it subscribes again.
C9_RotationExclusive ==
    /\ [](openStreams <= 1 /\ last.peak <= 1)
    /\ [][ last'.op = "rotated"
               => last'.log = IF openStreams > 0 THEN <<"stop", "subscribe">>
                              ELSE <<"subscribe">> ]_vars

\* C9 witness: a rotation has stopped the old handle and opened a new one
\* while the answer of another poll is still in flight.
C9_Witness ==
    /\ last.op = "rotated"
    /\ last.log = <<"stop", "subscribe">>
    /\ openStreams = 1
    /\ polls # EmptyBag

\* C10: with a term source that does not change and answers, polls rotate at
\* most once: a rotation starts from the state of startup (no handle, no
\* terms applied), and once a handle is open no poll stops it, subscribes or
\* changes the applied terms.
C10_PollIdempotent ==
    [][ /\ last'.op = "rotated"
            => (twitterStream = NoStream /\ currentStreamTerms = <<>>)
        /\ twitterStream.open
            => /\ UNCHANGED <<twitterStream, currentStreamTerms, openStreams>>
               /\ last'.log = <<>> ]_vars

\* C10 witness: a poll after the rotation has found no new terms, for a term
\* source that the normalization reorders or trims.
C10_Witness ==
    /\ last.op = "noNewTerms"
    /\ twitterStream.open
    /\ Len(currentStreamTerms) = 2
    /\ termSource # currentStreamTerms
    /\ openStreams = 1

\* The callbacks of updateTerms
PollOps == {"rotated", "noNewTerms"}

\* The answers of the term query that the step hands to its callback
Answered == BagToSet(polls (-) polls')

\* A raw term of spaces only: empty once trimmed
Blank(k) == \A j \in 1..Len(k) : k[j] = SP

Subscribed == twitterStream.open

\* C11: if the subscription of a rotation fails (the stream emits 'error'),
\* currentStreamTerms keeps the value it had before the rotation, which
\* differs from the terms of the failed subscription, so that the next poll
\* that fetches these terms again finds a difference and rotates again.
C11_FailedSubscribeKeepsTerms ==
    (twitterStream.open /\ twitterStream.failed)
        => ~termsEqual(twitterStream.track, currentStreamTerms)

NormalTerm(t) ==
    /\ t # <<>>
    /\ Head(t) # SP
    /\ t[Len(t)] # SP
    /\ \A j \in 1..Len(t) : ~(t[j] >= 65 /\ t[j] <= 90)

IsSortedAscending(s) == \A i \in 1..(Len(s) - 1) : ~StrLess(s[i + 1], s[i])

Occurrences(s, x) == Cardinality({i \in 1..Len(s) : s[i] = x})

\* t holds the raw terms of words, lower-cased and trimmed, each as often as
\* it occurs, and nothing else
SameTerms(t, words) ==
    LET lowered == [i \in 1..Len(words) |-> trim(toLowerCase(words[i]))]
    IN  \A x \in (Range(t) \cup Range(lowered)) \ {<<>>} :
            Occurrences(t, x) = Occurrences(lowered, x)

\* C13: the terms a successful poll hands to the comparison (they are the
\* applied terms after it, whether it rotates or finds no new terms) are
\* the raw terms lower-cased and trimmed, without the empty ones, sorted
\* ascending; no term is added or lost.
C13_TermsNormalized ==
    [][ last'.op \in PollOps
            => \A r \in Answered :
                   ~r.err =>
                       /\ \A i \in 1..Len(currentStreamTerms') :
                              NormalTerm(currentStreamTerms'[i])
                       /\ IsSortedAscending(currentStreamTerms')
                       /\ SameTerms(currentStreamTerms', r.words) ]_vars

\* C13 witness: a rotation has applied one term for a source of two raw
\* terms, and the applied term is not one of the raw terms.
C13_Witness ==
    /\ last.op = "rotated"
    /\ Len(termSource) = 2
    /\ Len(currentStreamTerms) = 1
    /\ currentStreamTerms[1] \notin Range(termSource)

\* ["clinton", "obama"]
ClintonObama == << <<99, 108, 105, 110, 116, 111, 110>>, <<111, 98, 97, 109, 97>> >>

\* ["clinton", "clinton", "obama"]
ClintonClintonObama ==
    << <<99, 108, 105, 110, 116, 111, 110>>, <<99, 108, 105, 110, 116, 111, 110>>,
       <<111, 98, 97, 109, 97>> >>

\* C14 as claimed: the applied terms never hold the same term twice, and the
\* raw terms [" Clinton ", "clinton", "", "Obama"] are applied as
\* ["clinton", "obama"].
C14_AppliedTermsDeduped ==
    /\ \A i, j \in 1..Len(currentStreamTerms) :
           i # j => currentStreamTerms[i] # currentStreamTerms[j]
    /\ (termSource = ClintonTerms /\ Subscribed) => currentStreamTerms = ClintonObama

\* C14 amended: the normalization keeps duplicates.  Once subscribed, the
\* applied terms are as many as the raw terms that are not blank, and the
\* raw terms [" Clinton ", "clinton", "", "Obama"] are applied as
\* ["clinton", "clinton", "obama"].
C14_DuplicatesRemain ==
    /\ Subscribed
           => Len(currentStreamTerms) =
                  Cardinality({i \in 1..Len(termSource) : ~Blank(termSource[i])})
    /\ (termSource = ClintonTerms /\ Subscribed)
           => currentStreamTerms = ClintonClintonObama

\* C14 witness: the terms of the scenario are applied and a later poll has
\* compared them again and found no new terms.
C14_Witness ==
    /\ termSource = ClintonTerms
    /\ Subscribed
    /\ last.op = "noNewTerms"
    /\ Len(currentStreamTerms) = 3

\* C15: a poll whose term query fails leaves the applied terms and the feed
\* handle as they are and calls neither stop nor subscribe.
C15_FailedPollKeepsState ==
    [][ (last'.op \in PollOps /\ \E r \in Answered : r.err)
            => /\ UNCHANGED <<currentStreamTerms, twitterStream, openStreams>>
               /\ last'.log = <<>> ]_vars

\* The callbacks of updateAvailableVMs
RefreshOps == {"refreshed", "refreshFailed"}

\* C16: a refresh whose inventory query fails, at the initialisation of the
\* cloud module or at the listing, keeps the pool, the cursor and the
\* assignments and leaves the program running.
C16_FailedRefreshKeepsPool ==
    [][ (last'.op \in RefreshOps /\ last'.res.err # "none")
            => /\ last'.op = "refreshFailed"
               /\ UNCHANGED <<vms, roundRobinIndex, store, hist, pc, twitterStream>> ]_vars

\* C16 witness: the listing has failed while the pool holds two workers and
\* a tweet is assigned to one of them.
C16_Witness ==
    /\ last.op = "refreshFailed"
    /\ last.res.err = "list"
    /\ Len(vms) = 2
    /\ \E e \in Events : InPool(store[e], vms)

\* The positions of the instances of l that are RUNNING or CREATING
KeptIndexes(l) ==
    {i \in 1..Len(l) : l[i].instanceStatus = "RUNNING" \/ l[i].currentAction = "CREATING"}

\* C17: after a refresh that succeeds the pool is the names, in the order of
\* the answer, of the instances of the answer that are RUNNING or CREATING,
\* whatever the pool was; it is empty when the answer has no
\* managedInstances.
C17_RefreshReplacesPool ==
    [][ last'.op = "refreshed"
            => LET r == last'.res
                   l == r.managedInstances
                   K == KeptIndexes(l)
               IN  IF r.hasManaged
                   THEN /\ Len(vms') = Cardinality(K)
                        /\ \A i \in K :
                               vms'[Cardinality({j \in K : j <= i})] = l[i].name
                   ELSE vms' = <<>> ]_vars

\* C17 witness: the answer lists w1 running and w2 stopping while a tweet is
\* assigned to a worker that the answer does not keep.
C17_Witness ==
    /\ last.op = "refreshed"
    /\ last.res.managedInstances = <<Running("w1"), Stopping("w2")>>
    /\ vms = <<"w1">>
    /\ \E e \in Events : store[e] \in {"w2", "w3"}

Abs(x) == IF x < 0 THEN -x ELSE x

\* C18: the stat updateStats hands to storeStat holds a finite rate: the
\* tweets counted in the window divided by the seconds elapsed, to the
\* nearest tenth; 2.5 for 25 tweets in 10 seconds, 0.0 for no tweets,
\* whatever the time elapsed (0 included).
C18_ReportsFiniteRate ==
    [][ last'.op = "report"
            => \A st \in BagToSet(statWrites' (-) statWrites) :
                   LET n == stats.tweetsCount
                       t == clock - stats.timestamp
                       v == st.tweetsPerSec
                   IN  /\ v.text = "digits"
                       /\ t > 0 => 2 * Abs(v.tenths * t - n * 10000) <= t
                       /\ (n = 25 /\ t = 10000) => v.tenths = 25
                       /\ n = 0 => v.tenths = 0 ]_vars

\* The callbacks of storeStat
StatOps == {"statStored", "statFailed"}

\* C19: updateStats leaves the window empty and started now; the callback
\* of storeStat leaves the window alone, whether the write succeeded or
\* failed; the count only grows by one with each insert that succeeds.  So
\* the count of a window is the inserts that succeeded since the last
\* report.
C19_WindowResetOnReport ==
    [][ /\ last'.op = "report" => stats' = [timestamp |-> clock, tweetsCount |-> 0]
        /\ last'.op \in StatOps => UNCHANGED stats
        /\ last'.op = "insert" =>
               stats' = [stats EXCEPT !.tweetsCount = stats.tweetsCount + 1]
        /\ last'.op \notin {"report", "insert"} => UNCHANGED stats ]_vars

\* C19 witness: the write of a stat has failed, nothing is stored, and the
\* window that began with that report has counted one tweet.
C19_Witness ==
    /\ last.op = "statFailed"
    /\ jazzStats = {}
    /\ stats.timestamp > 0
    /\ stats.tweetsCount = 1
    /\ \E e \in Events : store[e] # NOTSTORED

\* C20: an insert that fails stores nothing and queues nothing, the program
\* and the stream keep running; a tweet gets into the datastore only by an
\* insert that succeeds, and the insert that follows a failed one stores
\* its tweet with the worker selected for it.
C20_InsertFailureDropsEvent ==
    [][ /\ last'.op = "insertFailed"
            => /\ UNCHANGED <<store, lostQueries, stats, pc, twitterStream, openStreams>>
               /\ pc' = "running"
               /\ twitterStream'.open
        /\ \A e \in Events :
               (store[e] = NOTSTORED /\ store'[e] # NOTSTORED)
                   => (last'.op = "insert" /\ store'[e] = last'.sel)
        /\ (last.op = "insertFailed" /\ last'.op = "insert")
               => \E e \in Events : store[e] = NOTSTORED /\ store'[e] = last'.sel ]_vars

\* C20 witness: an insert has failed after another tweet was stored, and
\* the tweet that failed is not in the datastore.
C20_Witness ==
    /\ last.op = "insertFailed"
    /\ \E e \in Events : store[e] = NOTSTORED
    /\ \E e \in Events : store[e] # NOTSTORED
    /\ lostQueries = EmptyBag

C22_EagerRefreshBeforeDispatch ==
    [][ /\ (pc = "loaded" /\ pc' = "running") => refreshes' = refreshes + 1
        /\ last'.op \in AssignOps => pc = "running" ]_vars

\* C22 witness: the first tweet is dispatched while the query of the eager
\* call is the only one made and still in flight.
C22_Witness ==
    /\ last.op \in AssignOps
    /\ refreshes = 1
    /\ vms = <<>>
    /\ hist = <<DEFAULT>>
    /\ lostQueries = EmptyBag

\* C23: the worker reassignLostTweets writes for a lost tweet is a worker of
\* the pool at the time of the write and never 'default', however the
\* refreshes interleave with the callbacks of getLostTweets.
C23_ReclaimedToLiveWorker ==
    last.op = "reassign" => (InPool(last.sel, vms) /\ last.sel # DEFAULT)

\* C25: whenever a feed handle is open, currentStreamTerms is the terms
\* that handle was opened with.
C25_AppliedTermsOfOpenHandle ==
    twitterStream.open => currentStreamTerms = twitterStream.track

\* C25 witness: a rotation has replaced a handle by one opened with other
\* terms, no poll is in flight and the term source has changed since.
C25_Witness ==
    /\ last.op = "termsChange"
    /\ twitterStream.open
    /\ twitterStream.track # <<>>
    /\ polls = EmptyBag
    /\ getTerms([err |-> FALSE, words |-> termSource]) # twitterStream.track

\* s without its element i
Without(s, i) == SubSeq(s, 1, i - 1) \o SubSeq(s, i + 1, Len(s))

\* The raw terms b are the raw terms a with one term added that answers
\* to keep.
OneAdded(a, b, keep(_)) == \E i \in 1..Len(b) : Without(b, i) = a /\ keep(b[i])

AnyTerm(k) == TRUE

NotBlank(k) == ~Blank(k)

\* What a poll callback does for the answer r when it rotates fully: one
\* stop if a handle is open, one subscribe with all the terms of r.
FullResubscription(r) ==
    /\ last'.op = "rotated"
    /\ last'.log = (IF Subscribed THEN <<"stop">> ELSE <<>>) \o <<"subscribe">>
    /\ twitterStream' = subscribeToTweets(getTerms(r))
    /\ openStreams' = (IF Subscribed THEN openStreams - 1 ELSE openStreams) + 1

C24_NoStaleOverwrite ==
    [][ (last'.op = "refreshed" /\ last'.res.late) => vms' = vms ]_vars

\* C28: every assign is made after the answer of a refresh has been
\* applied to the pool, in whatever order the answer of the inventory, the
\* answer of the term query and the first tweet arrive.
C28_NoAssignBeforeFirstRefresh ==
    last.op \in AssignOps => refreshOrder.applied

\* C27: the cursor is written by the assigns only.  A refresh, a poll with
\* or without rotation, a report and every other handler leave it as it is,
\* also when the size of the pool changes; an assign reads the pool and the
\* cursor, selects and advances in one step, with the pool and the cursor no
\* other assign has touched in between.
C27_CursorWrittenByAssignOnly ==
    [][ /\ roundRobinIndex' # roundRobinIndex => last'.op \in AssignOps
        /\ last'.op \in (RefreshOps \cup PollOps \cup StatOps \cup {"report"})
               => UNCHANGED roundRobinIndex
        /\ Len(vms') # Len(vms) => UNCHANGED roundRobinIndex
        /\ last'.op \in AssignOps
               => LET s == selectNextVM(vms, roundRobinIndex)
                  IN  /\ last'.sel = s.selectedVM
                      /\ roundRobinIndex' = s.roundRobinIndex
                      /\ UNCHANGED vms ]_vars

\* C27 witness: after two assigns with an empty pool, a rotation and a
\* stored report, a refresh has set a pool of one worker and the cursor is
\* still 2.
C27_Witness ==
    /\ last.op = "refreshed"
    /\ Len(vms) = 1
    /\ roundRobinIndex = 2
    /\ jazzStats # {}
    /\ twitterStream.open
    /\ twitterStream.track = <<>>

\* The tweets in the datastore
Stored == {e \in Events : store[e] # NOTSTORED}

\* C29: the counts the reports have used and the count of the window now
\* add up to the inserts that succeeded so far, which are the tweets in the
\* datastore; an insert that fails and a rewrite of the reclaimer are counted
\* in no window.
C29_EveryInsertCountedOnce ==
    /\ counted.reports + stats.tweetsCount = counted.inserts
    /\ counted.inserts = Cardinality(Stored)

\* C29 witness: an insert has failed, one has succeeded and a report has
\* used its count, and the reclaimer has then rewritten the tweet.
C29_Witness ==
    /\ last.op = "reassign"
    /\ roundRobinIndex > 1
    /\ counted.inserts = 1
    /\ counted.reports = 1
    /\ stats.tweetsCount = 0
    /\ jazzStats # {}

\* The documents a step of findSingleNewTweet returns
Handed == {t \in Docs : handed'[t] # handed[t]}

\* C30: findSingleNewTweet returns each tweet to one caller at most, however
\* the calls interleave: the tweet it returns was new (not analyzed, not in
\* progress) and is in progress afterwards, a call made while a new tweet
\* exists returns one, and a tweet in progress or analyzed is not returned
\* again.
C30_NewTweetHandedOnce ==
    [][ /\ \A t \in Docs : Len(handed'[t]) <= 1
        /\ \A t \in Handed :
               /\ isNewTweet(tweets[t])
               /\ tweets'[t] = [exists |-> TRUE, analyzed |-> FALSE, inProgress |-> TRUE]
               /\ Handed = {t}
               /\ last'.op = "found"
        /\ last'.op = "found" => Handed # {}
        /\ last'.op = "foundNone"
               => \A t \in Docs : ~tweets[t].exists \/ tweets[t].inProgress \/ tweets[t].analyzed
        /\ \A t \in Docs :
               (tweets[t].exists /\ (tweets[t].inProgress \/ tweets[t].analyzed))
                   => handed'[t] = handed[t] ]_vars

\* C30 witness: one tweet has been handed out and analyzed, the other has
\* been handed out and is in progress, and a call made then has found none.
C30_Witness ==
    /\ last.op = "foundNone"
    /\ \E t \in Docs :
           /\ Len(handed[t]) = 1
           /\ tweets[t] = [exists |-> TRUE, analyzed |-> TRUE, inProgress |-> FALSE]
    /\ \E t \in Docs : tweets[t].inProgress /\ Len(handed[t]) = 1

\* C31: after any calls of insertTweet, findSingleNewTweet and
\* updateSingleTweetWithAnalysis no tweet is analyzed and in progress at
\* once: a tweet is new, in progress or analyzed.
C31_NeverAnalyzedInProgress ==
    \A t \in Docs :
        tweets[t].exists
            => /\ ~(tweets[t].analyzed /\ tweets[t].inProgress)
               /\ tweets[t] \in { NewTweet,
                                  [NewTweet EXCEPT !.inProgress = TRUE],
                                  [NewTweet EXCEPT !.analyzed = TRUE] }

\* C31 witness: a tweet that was handed out and in progress has just been
\* updated with its analysis, while another tweet is new.
C31_Witness ==
    /\ last.op = "analyzed"
    /\ \E t \in Docs :
           /\ Len(handed[t]) = 1
           /\ tweets[t].analyzed
           /\ ~tweets[t].inProgress
    /\ \E t \in Docs : tweets[t] = NewTweet

C33_BucketNeverOverfull ==
    \A b \in Buckets : tweet_buckets[b] <= bucketSize

====
